---- MODULE Spec2Model ----
(***************************************************************************)
(* Verification model of the OceanBestPractices indexing core:             *)
(*   - scrollMap over the Open Search scroll API (open-search-client),     *)
(*   - indexTerms, the term index synchronizer (term-indexer),             *)
(*   - the keyword-search handler (search-by-keywords).                    *)
(*   - the ingest pipeline wired by the Ingest construct,                  *)
(*   - the index store and DSpace clients, the search query builder and    *)
(*     the SPARQL proxy handler.                                           *)
(* Each subsystem has its own specification over the shared variables.     *)
(***************************************************************************)
EXTENDS Integers, Sequences, FiniteSets, TLC

\* ---------------------------------------------------------------- bounds
\* Number of documents the scrolled index may hold.
MaxDocs == 3
\* Largest page size (scrollOptions.size) tried; the code's default is 500.
MaxSize == 2
\* Largest pMap concurrency tried (pMapOptions.concurrency).
MaxConc == 2

\* Scaled-down LIMIT of a graph query (the code appends LIMIT 500).
PageLimit == 4
\* Largest number of terms the graph store may hold.
MaxTerms == 5
\* Number of times indexTerms is run against the same stores.
MaxRuns == 2
\* Largest number of keywords in a search request.
MaxKeywords == 2
\* Number of documents the scheduler may announce to the ingest pipeline.
MaxIngestDocs == 1
\* Number of events the notification fabric may deliver a second time.
MaxDup == 1
\* Number of document uuids the client writes to the documents index.
MaxClientDocs == 2
\* Number of writes the documents index accepts in one behaviour.
MaxPuts == 3
\* Largest number of hits in a percolate response (the code asks for 300).
MaxHits == 2
\* Largest number of entries of terms and of termURIs in the search options.
MaxFilterTerms == 2

VARIABLES
  \* ---- scrollMap and the index store's scroll context
  nDocs,        \* documents in the index: 1..nDocs
  size,         \* scrollOptions.size
  conc,         \* pMapOptions.concurrency
  newIds,       \* TRUE: the store issues a new scroll id with every page
  spc,          \* position of scrollMap
  scrollId,     \* const scrollId of scrollMap (0: not yet bound)
  hits,         \* let hits: the current page
  nextIdx,      \* pMap: index of the next hit to hand to the handler
  inflight,     \* pMap: hits whose handler promise is not settled yet
  applied,      \* number of times the handler was invoked, per document
  handlerFailed,\* some handler invocation has rejected
  openedValid,  \* openScroll returned a response that passed the schema
  nextCalls,    \* log of nextScroll calls: [id |-> sent, prev |-> id of the preceding response]
  closeCalls,   \* log of closeScroll calls (the id sent)
  lastRespId,   \* _scroll_id of the latest response received
  srvOpen,      \* the store holds an open scroll context
  srvOpened,    \* the store has ever opened a scroll context for this run
  srvPos,       \* documents already served by the scroll context
  srvIssued,    \* ids issued so far by the store
  outcome,      \* "none" | "returned" | "threw"
  \* ---- indexTerms, the graph store and the terms index
  graph,        \* labels of the terms the graph query selects, in result order
  stopwords,    \* params.stopwords
  tpc,          \* position of indexTerms: "idle" | "fetch" | "bulk" | "done" | "threw"
  offset,       \* let offset
  terms,        \* let terms: the page fetched last
  reqLog,       \* requests of the current run, in order, with their answers
  termsIndex,   \* documents of the terms index: [id, label]
  nextDocId,    \* next identifier the index store generates
  run,          \* runs of indexTerms started so far
  snapTaken,    \* a run has completed without error
  snap,         \* the terms index when the first such run completed
  \* ---- the keyword-search handler
  params,       \* event.queryStringParameters
  hpc,          \* position of the handler: "idle" | "start" | "synonyms" | "search" | "done"
  synState,     \* per keyword, the state of its synonym query promise
  synResults,   \* per keyword, the synonyms its query resolved with
  synBodies,    \* per keyword, the bindings of the answer to its synonym query
  synQueries,   \* synonym queries sent to the graph store
  synOrder,     \* keywords in the order in which their queries settled
  searches,     \* keyword lists of the searches issued against the index store
  callbacks,    \* invocations of the Lambda callback: [err, statusCode, body]
  \* ---- the ingest pipeline
  snapshot,     \* per document, the bitstreams of its DSpace item
  scheduled,    \* per document, the scheduler has announced it
  queue,        \* per function and document, events waiting to invoke it
  metaBucket,   \* per document, {uuid}.json exists in the document metadata bucket
  srcBucket,    \* per document, content of {uuid}.pdf in the document source bucket
  textBucket,   \* per document, its text exists in the text extractor destination bucket
  bsRuns,       \* log of bitstreams-downloader invocations and what each did
  ran,          \* per document, the functions that ran for it, in order
  dups,         \* events delivered a second time so far
  \* ---- the index store and DSpace clients
  docsIndex,    \* the documents index: entries [id, doc]
  written,      \* per uuid, the title of the document item accepted last ("none": never)
  puts,         \* writes accepted by the documents index so far
  putRepeat,    \* the write accepted last carried the item the index already held
  idxMapping,   \* body the index was created with ("none": the index does not exist)
  call          \* the client call made last, with the answer it got and its result

svars == << nDocs, size, conc, newIds, spc, scrollId, hits, nextIdx, inflight,
            applied, handlerFailed, openedValid, nextCalls, closeCalls,
            lastRespId, srvOpen, srvOpened, srvPos, srvIssued, outcome >>

tvars == << graph, stopwords, tpc, offset, terms, reqLog, termsIndex,
            nextDocId, run, snapTaken, snap >>

hvars == << params, hpc, synState, synResults, synBodies, synQueries, synOrder,
            searches, callbacks >>

ivars == << snapshot, scheduled, queue, metaBucket, srcBucket, textBucket,
            bsRuns, ran, dups >>

cvars == << docsIndex, written, puts, putRepeat, idxMapping, call >>

vars == << svars, tvars, hvars, ivars, cvars >>

\* Variables that scrollMap does not touch.
notScroll == << tvars, hvars, ivars, cvars >>
\* Variables that indexTerms does not touch.
notTerms == << svars, hvars, ivars, cvars >>
\* Variables that the keyword-search handler does not touch.
notSearch == << svars, tvars, ivars, cvars >>
\* Variables that the ingest pipeline does not touch.
notIngest == << svars, tvars, hvars, cvars >>
\* Variables that the index store and DSpace clients do not touch.
notClient == << svars, tvars, hvars, ivars >>

Min(a, b) == IF a < b THEN a ELSE b

\* indexTerms is not running: the state of a specification of another part.
TermsIdle ==
  /\ graph = << >>
  /\ stopwords = {}
  /\ tpc = "idle"
  /\ offset = 0
  /\ terms = << >>
  /\ reqLog = << >>
  /\ termsIndex = {}
  /\ nextDocId = 1
  /\ run = 0
  /\ snapTaken = FALSE
  /\ snap = {}

\* Documents of the ingest pipeline.
IngestDocs == 1..MaxIngestDocs

\* The functions of the ingest pipeline (IngestLambdas) and the third-party
\* text extractor.
Functions == {"metadataDownloader", "bitstreamsDownloader", "invokeExtractor",
              "textExtractor", "indexer"}

\* Uuids of the document items the client writes.
Uuids == 1..MaxClientDocs

\* No client call has been made and the stores are empty: the state of a
\* specification of another part.
ClientIdle ==
  /\ docsIndex = {}
  /\ written = [u \in Uuids |-> "none"]
  /\ puts = 0
  /\ putRepeat = FALSE
  /\ idxMapping = "none"
  /\ call = [fn |-> "none"]

\* The ingest pipeline is not running: the state of a specification of
\* another part.
IngestIdle ==
  /\ snapshot = [d \in IngestDocs |-> << >>]
  /\ scheduled = [d \in IngestDocs |-> FALSE]
  /\ queue = [f \in Functions |-> [d \in IngestDocs |-> 0]]
  /\ metaBucket = [d \in IngestDocs |-> FALSE]
  /\ srcBucket = [d \in IngestDocs |-> "none"]
  /\ textBucket = [d \in IngestDocs |-> FALSE]
  /\ bsRuns = << >>
  /\ ran = [d \in IngestDocs |-> << >>]
  /\ dups = 0

\* No keyword search is running: the state of a specification of another part.
SearchIdle ==
  /\ params = [present |-> FALSE, hasKeywords |-> FALSE, keywords |-> << >>,
               synonyms |-> "undefined"]
  /\ hpc = "idle"
  /\ synState = << >>
  /\ synResults = << >>
  /\ synBodies = << >>
  /\ synQueries = 0
  /\ synOrder = << >>
  /\ searches = << >>
  /\ callbacks = << >>

\* scrollMap is not running: the state of a specification of another part.
ScrollIdle ==
  /\ nDocs = 0
  /\ size = 1
  /\ conc = 1
  /\ newIds = FALSE
  /\ spc = "idle"
  /\ scrollId = 0
  /\ hits = << >>
  /\ nextIdx = 1
  /\ inflight = {}
  /\ applied = [d \in 1..MaxDocs |-> 0]
  /\ handlerFailed = FALSE
  /\ openedValid = FALSE
  /\ nextCalls = << >>
  /\ closeCalls = << >>
  /\ lastRespId = 0
  /\ srvOpen = FALSE
  /\ srvOpened = FALSE
  /\ srvPos = 0
  /\ srvIssued = 0
  /\ outcome = "none"

\* ------------------------------------------------ the index store (scroll)
\* The page of documents the scroll context serves at position pos.
PageAt(pos, n, sz) == [i \in 1..Min(sz, n - pos) |-> pos + i]

\* The _scroll_id carried by the k-th response of the store.
IssuedId(k, fresh) == IF fresh THEN k ELSE 1

\* ------------------------------------------------------------- scrollMap
ScrollInit ==
  /\ nDocs \in 0..MaxDocs
  /\ size \in 1..MaxSize
  /\ conc \in 1..MaxConc
  /\ newIds \in BOOLEAN
  /\ spc = "open"
  /\ scrollId = 0
  /\ hits = << >>
  /\ nextIdx = 1
  /\ inflight = {}
  /\ applied = [d \in 1..MaxDocs |-> 0]
  /\ handlerFailed = FALSE
  /\ openedValid = FALSE
  /\ nextCalls = << >>
  /\ closeCalls = << >>
  /\ lastRespId = 0
  /\ srvOpen = FALSE
  /\ srvOpened = FALSE
  /\ srvPos = 0
  /\ srvIssued = 0
  /\ outcome = "none"

\* Variant of EnterLoop whose loop test is hits.length > 1: a page holding a
\* single hit is taken for the end of the scan.
EnterLoop_SkipsShortPage(h) ==
  IF Len(h) <= 1
  THEN /\ spc' = "finally"
       /\ nextIdx' = 1
       /\ inflight' = inflight
       /\ applied' = applied
  ELSE /\ spc' = "pmap"
       /\ nextIdx' = Min(conc, Len(h)) + 1
       /\ inflight' = inflight \cup {h[i] : i \in 1..Min(conc, Len(h))}
       /\ applied' = [d \in 1..MaxDocs |->
                        IF \E i \in 1..Min(conc, Len(h)) : h[i] = d
                        THEN applied[d] + 1 ELSE applied[d]]

\* pMap(hits, f, pMapOptions): hand the first min(concurrency, n) hits to f.
\* An empty page skips the loop body (while (hits.length > 0)).
EnterLoop(h) ==
  IF Len(h) = 0
  THEN /\ spc' = "finally"
       /\ nextIdx' = 1
       /\ inflight' = inflight
       /\ applied' = applied
  ELSE /\ spc' = "pmap"
       /\ nextIdx' = Min(conc, Len(h)) + 1
       /\ inflight' = inflight \cup {h[i] : i \in 1..Min(conc, Len(h))}
       /\ applied' = [d \in 1..MaxDocs |->
                        IF \E i \in 1..Min(conc, Len(h)) : h[i] = d
                        THEN applied[d] + 1 ELSE applied[d]]

\* await openScroll(...) rejects: no scroll was opened, scrollMap throws.
OpenScrollFails ==
  /\ spc = "open"
  /\ spc' = "done"
  /\ outcome' = "threw"
  /\ UNCHANGED << nDocs, size, conc, newIds, scrollId, hits, nextIdx, inflight,
                  applied, handlerFailed, openedValid, nextCalls, closeCalls,
                  lastRespId, srvOpen, srvOpened, srvPos, srvIssued >>
  /\ UNCHANGED notScroll

\* The store opens a scroll but the body fails scrollResponseSchema.parse,
\* which stands before the try block: scrollMap throws.
OpenScrollInvalid ==
  /\ spc = "open"
  /\ srvOpen' = TRUE
  /\ srvOpened' = TRUE
  /\ srvIssued' = 1
  /\ srvPos' = Min(size, nDocs)
  /\ spc' = "done"
  /\ outcome' = "threw"
  /\ UNCHANGED << nDocs, size, conc, newIds, scrollId, hits, nextIdx, inflight,
                  applied, handlerFailed, openedValid, nextCalls, closeCalls,
                  lastRespId >>
  /\ UNCHANGED notScroll

\* openScroll answers with a valid first page.
OpenScrollOk ==
  /\ spc = "open"
  /\ srvOpen' = TRUE
  /\ srvOpened' = TRUE
  /\ srvIssued' = 1
  /\ srvPos' = Min(size, nDocs)
  /\ openedValid' = TRUE
  /\ scrollId' = IssuedId(1, newIds)
  /\ lastRespId' = IssuedId(1, newIds)
  /\ hits' = PageAt(0, nDocs, size)
  /\ EnterLoop(PageAt(0, nDocs, size))
  /\ UNCHANGED << nDocs, size, conc, newIds, handlerFailed, nextCalls,
                  closeCalls, outcome >>
  /\ UNCHANGED notScroll

\* A handler promise resolves while pMap is waiting: pMap starts the next
\* hit, or resolves when every hit of the page is settled.
HandlerResolves ==
  /\ spc = "pmap"
  /\ \E d \in inflight :
       /\ \E i \in 1..Len(hits) : hits[i] = d
       /\ IF nextIdx <= Len(hits)
          THEN /\ inflight' = (inflight \ {d}) \cup {hits[nextIdx]}
               /\ applied' = [applied EXCEPT ![hits[nextIdx]] = @ + 1]
               /\ nextIdx' = nextIdx + 1
               /\ spc' = "pmap"
          ELSE /\ inflight' = inflight \ {d}
               /\ UNCHANGED << applied, nextIdx >>
               /\ spc' = IF inflight \ {d} = {} THEN "next" ELSE "pmap"
  /\ UNCHANGED << nDocs, size, conc, newIds, scrollId, hits, handlerFailed,
                  openedValid, nextCalls, closeCalls, lastRespId, srvOpen,
                  srvOpened, srvPos, srvIssued, outcome >>
  /\ UNCHANGED notScroll

\* Variant of HandlerRejects without the try/finally: the rejection leaves
\* scrollMap at once.
HandlerRejects_NoFinally ==
  /\ spc = "pmap"
  /\ \E d \in inflight :
       /\ inflight' = inflight \ {d}
  /\ handlerFailed' = TRUE
  /\ spc' = "done"
  /\ outcome' = "threw"
  /\ UNCHANGED << nDocs, size, conc, newIds, scrollId, hits, nextIdx, applied,
                  openedValid, nextCalls, closeCalls, lastRespId, srvOpen,
                  srvOpened, srvPos, srvIssued >>
  /\ UNCHANGED notScroll

\* A handler promise rejects while pMap is waiting: pMap rejects at once
\* (stopOnError), starts no further hit, and scrollMap enters finally.
HandlerRejects ==
  /\ spc = "pmap"
  /\ \E d \in inflight :
       /\ inflight' = inflight \ {d}
  /\ handlerFailed' = TRUE
  /\ spc' = "finally"
  /\ outcome' = "threw"
  /\ UNCHANGED << nDocs, size, conc, newIds, scrollId, hits, nextIdx, applied,
                  openedValid, nextCalls, closeCalls, lastRespId, srvOpen,
                  srvOpened, srvPos, srvIssued >>
  /\ UNCHANGED notScroll

\* A handler started before pMap rejected settles afterwards; nobody listens.
HandlerSettlesLate ==
  /\ spc \in {"finally", "done"}
  /\ \E d \in inflight : inflight' = inflight \ {d}
  /\ UNCHANGED << nDocs, size, conc, newIds, spc, scrollId, hits, nextIdx,
                  applied, handlerFailed, openedValid, nextCalls, closeCalls,
                  lastRespId, srvOpen, srvOpened, srvPos, srvIssued, outcome >>
  /\ UNCHANGED notScroll

\* nextScroll(esUrl, scrollId): the request is logged with the id it sends.
LogNext == nextCalls' = Append(nextCalls, [id |-> scrollId, prev |-> lastRespId])

\* The nextScroll request fails (transport error, or the store refuses the id).
NextScrollFails ==
  /\ spc = "next"
  /\ LogNext
  /\ spc' = "finally"
  /\ outcome' = "threw"
  /\ UNCHANGED << nDocs, size, conc, newIds, scrollId, hits, nextIdx, inflight,
                  applied, handlerFailed, openedValid, closeCalls, lastRespId,
                  srvOpen, srvOpened, srvPos, srvIssued >>
  /\ UNCHANGED notScroll

\* The store serves the next page but its body fails the schema.
NextScrollInvalid ==
  /\ spc = "next"
  /\ srvOpen
  /\ LogNext
  /\ srvIssued' = srvIssued + 1
  /\ srvPos' = Min(srvPos + size, nDocs)
  /\ spc' = "finally"
  /\ outcome' = "threw"
  /\ UNCHANGED << nDocs, size, conc, newIds, scrollId, hits, nextIdx, inflight,
                  applied, handlerFailed, openedValid, closeCalls, lastRespId,
                  srvOpen, srvOpened >>
  /\ UNCHANGED notScroll

\* The store serves the next page of the scroll context.
NextScrollOk ==
  /\ spc = "next"
  /\ srvOpen
  /\ LogNext
  /\ srvIssued' = srvIssued + 1
  /\ srvPos' = Min(srvPos + size, nDocs)
  /\ lastRespId' = IssuedId(srvIssued + 1, newIds)
  /\ hits' = PageAt(srvPos, nDocs, size)
  /\ EnterLoop(PageAt(srvPos, nDocs, size))
  /\ UNCHANGED << nDocs, size, conc, newIds, scrollId, handlerFailed,
                  openedValid, closeCalls, srvOpen, srvOpened, outcome >>
  /\ UNCHANGED notScroll

\* finally { await closeScroll(esUrl, scrollId) }: the store drops the context.
CloseScrollOk ==
  /\ spc = "finally"
  /\ closeCalls' = Append(closeCalls, scrollId)
  /\ srvOpen' = FALSE
  /\ spc' = "done"
  /\ outcome' = IF outcome = "none" THEN "returned" ELSE outcome
  /\ UNCHANGED << nDocs, size, conc, newIds, scrollId, hits, nextIdx, inflight,
                  applied, handlerFailed, openedValid, nextCalls, lastRespId,
                  srvOpened, srvPos, srvIssued >>
  /\ UNCHANGED notScroll

\* closeScroll is issued but rejects (request or closeScrollResponseSchema).
CloseScrollFails ==
  /\ spc = "finally"
  /\ closeCalls' = Append(closeCalls, scrollId)
  /\ srvOpen' \in {srvOpen, FALSE}
  /\ spc' = "done"
  /\ outcome' = "threw"
  /\ UNCHANGED << nDocs, size, conc, newIds, scrollId, hits, nextIdx, inflight,
                  applied, handlerFailed, openedValid, nextCalls, lastRespId,
                  srvOpened, srvPos, srvIssued >>
  /\ UNCHANGED notScroll

ScrollNext ==
  \/ OpenScrollFails
  \/ OpenScrollInvalid
  \/ OpenScrollOk
  \/ HandlerResolves
  \/ HandlerRejects
  \/ HandlerSettlesLate
  \/ NextScrollFails
  \/ NextScrollInvalid
  \/ NextScrollOk
  \/ CloseScrollOk
  \/ CloseScrollFails

\* scrollMap is called; nothing else runs.
InitScroll ==
  ScrollInit /\ TermsIdle /\ SearchIdle /\ IngestIdle /\ ClientIdle

SpecScroll == InitScroll /\ [][ScrollNext]_vars

\* ------------------------------------------------------ scrollMap: claims

\* C1: once openScroll has returned a valid response, scrollMap issues no
\* closeScroll call while it runs and exactly one by the time it returns or
\* throws, whether the scan reached an empty page or a handler threw.
C1_ExactlyOneClose ==
  openedValid =>
    IF spc = "done" THEN Len(closeCalls) = 1 ELSE Len(closeCalls) = 0

\* C1 witness: a handler threw before every hit of its page was handed to
\* it, scrollMap has thrown and one closeScroll call was issued.
C1_Witness ==
  /\ spc = "done"
  /\ openedValid
  /\ handlerFailed
  /\ nextIdx <= Len(hits)
  /\ outcome = "threw"
  /\ Len(closeCalls) = 1

\* C2: every nextScroll call sends the scroll id of the response that
\* immediately precedes it (stated as claimed; the code sends the id of the
\* openScroll response every time).
C2_NextUsesPreviousId ==
  \A i \in DOMAIN nextCalls : nextCalls[i].id = nextCalls[i].prev

\* Number of non-empty pages of an index of n documents read sz at a time.
NonEmptyPages(n, sz) == (n + sz - 1) \div sz

\* C3: no document is ever handed to the handler twice, and a scan that
\* returns normally (no handler failed, every request succeeded) has handed
\* every document of the index to the handler exactly once and has asked for
\* exactly one page after each non-empty page, stopping at the empty one.
C3_EveryDocumentOnce ==
  /\ \A d \in 1..MaxDocs : applied[d] <= 1
  /\ (spc = "done" /\ outcome = "returned") =>
        /\ \A d \in 1..MaxDocs : applied[d] = (IF d <= nDocs THEN 1 ELSE 0)
        /\ Len(nextCalls) = NonEmptyPages(nDocs, size)
        /\ Len(hits) = 0

\* C3 witness: a scan over several pages, the last one short, has returned.
C3_Witness ==
  /\ spc = "done"
  /\ outcome = "returned"
  /\ ~handlerFailed
  /\ nDocs = 3
  /\ size = 2
  /\ Len(nextCalls) = 2
  /\ \A d \in 1..3 : applied[d] = 1

\* C4: once the store has opened a scroll, scrollMap does not exit without
\* having issued closeScroll (stated as claimed; the parse of the open
\* response stands outside the try block).
C4_CloseOnEveryExit ==
  (spc = "done" /\ srvOpened) => Len(closeCalls) >= 1

\* C26: when the handler has failed for one document, scrollMap has still
\* applied the handler to every other document of the index by the time it
\* ends, those of later pages included (stated as claimed; pMap rejects with
\* the first failure and scrollMap leaves the loop).
C26_SiblingsStillHandled ==
  (spc = "done" /\ handlerFailed) =>
    \A d \in 1..nDocs : applied[d] >= 1

\* ------------------------------------------------ indexTerms: the stores
\* Labels of the terms a graph store may hold.
Labels == {"ok", "a", "seawater", "the", "ocean", "sea"}

\* Stopword lists tried.
StopwordSets == {{}, {"the"}, {"the", "ocean"}}

\* HTTP statuses a store may answer with.
Statuses == {200, 201, 500}

\* Term lists of a graph store: every term once, at most MaxTerms of them.
Graphs ==
  UNION {{g \in [1..n -> Labels] : \A i, j \in 1..n : g[i] = g[j] => i = j}
           : n \in 0..Min(MaxTerms, Cardinality(Labels))}

\* The bindings a query with LIMIT PageLimit OFFSET off selects from g.
GraphPage(g, off) ==
  [i \in 1..Min(PageLimit, IF Len(g) > off THEN Len(g) - off ELSE 0) |-> g[off + i]]

\* Variant of ValidTerms without the stopword test.
ValidTerms_IgnoresStopwords(ts, sw) ==
  LET keep(t) == Len(t) > 2
  IN  SelectSeq(ts, keep)

\* Variant of ValidTerms that keeps labels of length 2 (t.label.length >= 2).
ValidTerms_KeepsLength2(ts, sw) ==
  LET keep(t) == Len(t) >= 2 /\ ~(t \in sw)
  IN  SelectSeq(ts, keep)

\* terms.filter((t) => t.label.length > 2 && !stopwords.includes(t.label))
ValidTerms(ts, sw) ==
  LET keep(t) == Len(t) > 2 /\ ~(t \in sw)
  IN  SelectSeq(ts, keep)

\* The _bulk body of bulkIndexTerms has one action line per term,
\* { index: { _index, _type } }, without _id: the index store generates a
\* new identifier for every document it receives.
BulkIndexed(idx, ts, firstId) ==
  idx \cup {[id |-> firstId + i - 1, label |-> ts[i]] : i \in 1..Len(ts)}

\* ------------------------------------------------------------ indexTerms
TermsInit ==
  /\ graph \in Graphs
  /\ stopwords \in StopwordSets
  /\ tpc = "fetch"
  /\ offset = 0
  /\ terms = << >>
  /\ reqLog = << >>
  /\ termsIndex = {}
  /\ nextDocId = 1
  /\ run = 1
  /\ snapTaken = FALSE
  /\ snap = {}

\* Variant of AdvanceOffset that adds the filtered size (validTerms.length).
AdvanceOffset_ByValid(page) == offset + Len(ValidTerms(page, stopwords))

\* offset += terms.length
AdvanceOffset(page) == offset + Len(page)

\* fetchTerms throws: the status is not 200, or the body of a 200 answer
\* fails fetchTermsResponseSchema. indexTerms throws with it.
FetchTermsRejected ==
  /\ tpc = "fetch"
  /\ \E st \in Statuses, valid \in BOOLEAN :
       /\ (st # 200) => valid
       /\ (st = 200) => ~valid
       /\ reqLog' = Append(reqLog, [kind |-> "graph", offset |-> offset,
                                    status |-> st, valid |-> valid,
                                    terms |-> << >>])
  /\ tpc' = "threw"
  /\ UNCHANGED << graph, stopwords, offset, terms, termsIndex, nextDocId, run,
                  snapTaken, snap >>
  /\ UNCHANGED notTerms

\* Variant of FetchTermsPage that leaves the loop at the first page without
\* a valid term (the test for the end of the loop made on validTerms).
FetchTermsPage_StopsAtInvalidPage ==
  /\ tpc = "fetch"
  /\ LET page == GraphPage(graph, offset) IN
       /\ reqLog' = Append(reqLog, [kind |-> "graph", offset |-> offset,
                                    status |-> 200, valid |-> TRUE,
                                    terms |-> page])
       /\ terms' = page
       /\ IF Len(ValidTerms(page, stopwords)) = 0
          THEN /\ tpc' = "done"
               /\ offset' = offset
               /\ snapTaken' = TRUE
               /\ snap' = IF snapTaken THEN snap ELSE termsIndex
          ELSE /\ tpc' = "bulk"
               /\ offset' = offset
               /\ UNCHANGED << snapTaken, snap >>
  /\ UNCHANGED << graph, stopwords, termsIndex, nextDocId, run >>
  /\ UNCHANGED notTerms

\* Variant of FetchTermsPage that takes a page shorter than the limit for
\* the end of the result and leaves the loop without loading it.
FetchTermsPage_StopsAtShortPage ==
  /\ tpc = "fetch"
  /\ LET page == GraphPage(graph, offset) IN
       /\ reqLog' = Append(reqLog, [kind |-> "graph", offset |-> offset,
                                    status |-> 200, valid |-> TRUE,
                                    terms |-> page])
       /\ terms' = page
       /\ IF Len(page) < PageLimit
          THEN /\ tpc' = "done"
               /\ offset' = offset
               /\ snapTaken' = TRUE
               /\ snap' = IF snapTaken THEN snap ELSE termsIndex
          ELSE /\ IF Len(ValidTerms(page, stopwords)) > 0
                  THEN tpc' = "bulk" /\ offset' = offset
                  ELSE tpc' = "fetch" /\ offset' = AdvanceOffset(page)
               /\ UNCHANGED << snapTaken, snap >>
  /\ UNCHANGED << graph, stopwords, termsIndex, nextDocId, run >>
  /\ UNCHANGED notTerms

\* fetchTerms returns a page: an empty one ends the loop, a page without a
\* valid term only advances the offset, any other goes to bulkIndexTerms.
FetchTermsPage ==
  /\ tpc = "fetch"
  /\ LET page == GraphPage(graph, offset) IN
       /\ reqLog' = Append(reqLog, [kind |-> "graph", offset |-> offset,
                                    status |-> 200, valid |-> TRUE,
                                    terms |-> page])
       /\ terms' = page
       /\ IF Len(page) = 0
          THEN /\ tpc' = "done"
               /\ offset' = offset
               /\ snapTaken' = TRUE
               /\ snap' = IF snapTaken THEN snap ELSE termsIndex
          ELSE /\ IF Len(ValidTerms(page, stopwords)) > 0
                  THEN tpc' = "bulk" /\ offset' = offset
                  ELSE tpc' = "fetch" /\ offset' = AdvanceOffset(page)
               /\ UNCHANGED << snapTaken, snap >>
  /\ UNCHANGED << graph, stopwords, termsIndex, nextDocId, run >>
  /\ UNCHANGED notTerms

\* bulkIndexTerms posts the valid terms of the page and is answered 200.
BulkIndexOk ==
  /\ tpc = "bulk"
  /\ LET valid == ValidTerms(terms, stopwords) IN
       /\ reqLog' = Append(reqLog, [kind |-> "bulk", offset |-> offset,
                                    status |-> 200, valid |-> TRUE,
                                    terms |-> valid])
       /\ termsIndex' = BulkIndexed(termsIndex, valid, nextDocId)
       /\ nextDocId' = nextDocId + Len(valid)
  /\ offset' = AdvanceOffset(terms)
  /\ tpc' = "fetch"
  /\ UNCHANGED << graph, stopwords, terms, run, snapTaken, snap >>
  /\ UNCHANGED notTerms

\* Variant of BulkIndexRejected without the status check of bulkIndexTerms:
\* the run goes on with the next page.
BulkIndexRejected_Continues ==
  /\ tpc = "bulk"
  /\ \E st \in Statuses \ {200} :
       reqLog' = Append(reqLog, [kind |-> "bulk", offset |-> offset,
                                 status |-> st, valid |-> TRUE,
                                 terms |-> ValidTerms(terms, stopwords)])
  /\ tpc' = "fetch"
  /\ offset' = AdvanceOffset(terms)
  /\ UNCHANGED << graph, stopwords, terms, termsIndex, nextDocId, run,
                  snapTaken, snap >>
  /\ UNCHANGED notTerms

\* bulkIndexTerms is answered with a status other than 200 and throws.
BulkIndexRejected ==
  /\ tpc = "bulk"
  /\ \E st \in Statuses \ {200} :
       reqLog' = Append(reqLog, [kind |-> "bulk", offset |-> offset,
                                 status |-> st, valid |-> TRUE,
                                 terms |-> ValidTerms(terms, stopwords)])
  /\ tpc' = "threw"
  /\ UNCHANGED << graph, stopwords, offset, terms, termsIndex, nextDocId, run,
                  snapTaken, snap >>
  /\ UNCHANGED notTerms

\* indexTerms is called again with the same parameters and the same stores.
StartRun ==
  /\ tpc \in {"done", "threw"}
  /\ run < MaxRuns
  /\ run' = run + 1
  /\ tpc' = "fetch"
  /\ offset' = 0
  /\ terms' = << >>
  /\ reqLog' = << >>
  /\ UNCHANGED << graph, stopwords, termsIndex, nextDocId, snapTaken, snap >>
  /\ UNCHANGED notTerms

TermsNext ==
  \/ FetchTermsRejected
  \/ FetchTermsPage
  \/ BulkIndexOk
  \/ BulkIndexRejected
  \/ StartRun

\* indexTerms is called; nothing else runs.
InitTerms ==
  TermsInit /\ ScrollIdle /\ SearchIdle /\ IngestIdle /\ ClientIdle

SpecTerms == InitTerms /\ [][TermsNext]_vars

\* Every request of indexTerms is answered: the awaited promise of fetchTerms
\* and that of bulkIndexTerms settle, with success or with an error.
TermsFairness ==
  /\ WF_vars(FetchTermsPage \/ FetchTermsRejected)
  /\ WF_vars(BulkIndexOk \/ BulkIndexRejected)

SpecTermsLive == InitTerms /\ [][TermsNext]_vars /\ TermsFairness
\* ----------------------------------------------------- indexTerms: claims
\* Positions of the graph queries in the request log of the run.
GraphIdx == {i \in DOMAIN reqLog : reqLog[i].kind = "graph"}

\* Positions of the bulk requests in the request log of the run.
BulkIdx == {i \in DOMAIN reqLog : reqLog[i].kind = "bulk"}

\* Sum of the raw sizes of the pages fetched before request i.
RECURSIVE RawBefore(_)
RawBefore(i) ==
  IF i <= 1 THEN 0
  ELSE RawBefore(i - 1) +
       (IF reqLog[i - 1].kind = "graph" THEN Len(reqLog[i - 1].terms) ELSE 0)

\* C5: the offset of every graph query equals the sum of the raw sizes of
\* the pages fetched before it in the run (0 for the first), and the offset
\* held between requests is that same sum.
C5_OffsetIsRawSum ==
  /\ \A i \in GraphIdx : reqLog[i].offset = RawBefore(i)
  /\ tpc = "fetch" => offset = RawBefore(Len(reqLog) + 1)

\* C5 witness: a third graph query was sent after two non-empty pages of
\* which one lost a term to the filter.
C5_Witness ==
  /\ Cardinality(GraphIdx) >= 2
  /\ \E i \in GraphIdx :
       /\ reqLog[i].offset = PageLimit
       /\ \E j \in BulkIdx : /\ j < i
                             /\ Len(reqLog[j].terms) < PageLimit
                             /\ Len(reqLog[j].terms) > 0

\* C6: every bulk request directly follows the graph query of its page and
\* carries, in page order, exactly the terms of that page whose label has
\* more than 2 characters and is no stopword; a page without such a term is
\* followed by no bulk request.
C6_BulkCarriesFiltered ==
  /\ \A i \in BulkIdx :
       /\ i > 1
       /\ reqLog[i - 1].kind = "graph"
       /\ LET page == reqLog[i - 1].terms
              pass == {k \in DOMAIN page :
                         Len(page[k]) > 2 /\ page[k] \notin stopwords}
              sent == reqLog[i].terms
          IN  /\ Len(sent) = Cardinality(pass)
              /\ Len(sent) > 0
              /\ \A k \in pass :
                   sent[Cardinality({m \in pass : m <= k})] = page[k]
  /\ \A i \in GraphIdx :
       (i < Len(reqLog) /\ reqLog[i + 1].kind = "bulk") <=>
         (i < Len(reqLog) /\
          \E k \in DOMAIN reqLog[i].terms :
             Len(reqLog[i].terms[k]) > 2 /\ reqLog[i].terms[k] \notin stopwords)
  /\ tpc = "bulk" =>
       /\ Len(reqLog) > 0
       /\ reqLog[Len(reqLog)].kind = "graph"
       /\ \E k \in DOMAIN terms : Len(terms[k]) > 2 /\ terms[k] \notin stopwords

\* C6 witness: a page mixing kept and dropped terms was bulk-loaded, and a
\* page of dropped terms only was passed over.
C6_Witness ==
  /\ \E i \in BulkIdx :
       /\ Len(reqLog[i].terms) >= 2
       /\ Len(reqLog[i].terms) < Len(reqLog[i - 1].terms)
  /\ \E i \in GraphIdx :
       /\ i < Len(reqLog)
       /\ Len(reqLog[i].terms) > 0
       /\ reqLog[i + 1].kind = "graph"

\* The page of the term-filtering example.
ExamplePage == << "ok", "a", "seawater", "the" >>

\* Requests i (graph), i+1 and i+2 of a run that fetched the example page
\* with the stopword set {"the"} and went on.
ExampleAt(i) ==
  /\ stopwords = {"the"}
  /\ i \in GraphIdx
  /\ reqLog[i].terms = ExamplePage

\* C7 as claimed: the example page bulk-indexes exactly "ok" and "seawater"
\* and the offset advances by 4.
C7_ExampleAsClaimed ==
  \A i \in DOMAIN reqLog :
    ExampleAt(i) =>
      /\ i < Len(reqLog) =>
           /\ reqLog[i + 1].kind = "bulk"
           /\ reqLog[i + 1].terms = << "ok", "seawater" >>
      /\ i + 1 < Len(reqLog) => reqLog[i + 2].offset = reqLog[i].offset + 4

\* C7 amended: the example page bulk-indexes exactly "seawater" ("ok" has
\* 2 characters and is dropped like "a"), and the offset advances by 4.
C7_ExampleAmended ==
  \A i \in DOMAIN reqLog :
    ExampleAt(i) =>
      /\ i < Len(reqLog) =>
           /\ reqLog[i + 1].kind = "bulk"
           /\ reqLog[i + 1].terms = << "seawater" >>
      /\ i + 1 < Len(reqLog) =>
           /\ reqLog[i + 2].kind = "graph"
           /\ reqLog[i + 2].offset = reqLog[i].offset + 4
      /\ (i + 1 = Len(reqLog) /\ tpc = "fetch") => offset = reqLog[i].offset + 4

\* C7 witness: the example page was fetched at offset 0, bulk-loaded, and
\* the next graph query was sent.
C7_Witness ==
  /\ ExampleAt(1)
  /\ Len(reqLog) = 3
  /\ reqLog[2].kind = "bulk"
  /\ reqLog[2].status = 200
  /\ reqLog[3].kind = "graph"
  /\ reqLog[3].offset = 4

Is2xx(st) == st >= 200 /\ st < 300

\* C8 as claimed: a non-2xx answer makes indexTerms throw with no request
\* after it, and every 2xx answer (with a well-formed body) lets it continue.
C8_AbortAsClaimed ==
  /\ \A i \in DOMAIN reqLog : i < Len(reqLog) => Is2xx(reqLog[i].status)
  /\ Len(reqLog) > 0 =>
       LET last == reqLog[Len(reqLog)]
       IN  /\ ~Is2xx(last.status) => tpc = "threw"
           /\ (Is2xx(last.status) /\ last.valid) => tpc # "threw"

\* C8 amended: an answer with a status other than 200 (every non-2xx status,
\* and also 201) or with a malformed body makes indexTerms throw with no
\* request after it; a 200 answer with a well-formed body lets it continue.
C8_AbortAmended ==
  /\ \A i \in DOMAIN reqLog :
       i < Len(reqLog) => (reqLog[i].status = 200 /\ reqLog[i].valid)
  /\ Len(reqLog) > 0 =>
       LET last == reqLog[Len(reqLog)]
       IN  (last.status # 200 \/ ~last.valid) <=> tpc = "threw"
  /\ Len(reqLog) = 0 => tpc # "threw"

\* C8 witness: a bulk load answered 201 after a successful page stopped the
\* run.
C8_Witness ==
  /\ tpc = "threw"
  /\ Len(reqLog) >= 4
  /\ reqLog[Len(reqLog)].kind = "bulk"
  /\ reqLog[Len(reqLog)].status = 201

\* The run has failed: its last request was answered with an error.
RunFailed ==
  /\ Len(reqLog) > 0
  /\ (reqLog[Len(reqLog)].status # 200 \/ ~reqLog[Len(reqLog)].valid)

\* C22: indexTerms terminates. Every run ends, and it throws only on a
\* request answered with an error; a run whose requests all succeed ends at
\* the first graph query that returns no binding, which is the only empty
\* page of the run and comes one query after the last non-empty page.
C22_Terminates ==
  /\ [](tpc = "threw" => RunFailed)
  /\ [](tpc = "done" =>
          /\ Cardinality(GraphIdx) = NonEmptyPages(Len(graph), PageLimit) + 1
          /\ reqLog[Len(reqLog)].kind = "graph"
          /\ \A i \in GraphIdx : (reqLog[i].terms = << >>) <=> (i = Len(reqLog)))
  /\ (tpc \in {"fetch", "bulk"}) ~> (tpc \in {"done", "threw"})

\* C22 witness: a run over two non-empty pages, the second one short, has
\* ended with a third graph query.
C22_Witness ==
  /\ tpc = "done"
  /\ run = 1
  /\ Len(graph) = PageLimit + 1
  /\ Cardinality(GraphIdx) = 3

\* Number of bulk requests of the run that carry label l, counted with
\* multiplicity.
Carried(l) ==
  Cardinality({<< i, k >> \in (DOMAIN reqLog) \X (1..PageLimit) :
                 /\ reqLog[i].kind = "bulk"
                 /\ k <= Len(reqLog[i].terms)
                 /\ reqLog[i].terms[k] = l})

\* C23: when a run of indexTerms has ended without error, every term of the
\* graph store whose label passes the filter was carried by exactly one bulk
\* request of the run, and every other term by none.
C23_EveryValidTermOnce ==
  tpc = "done" =>
    \A p \in DOMAIN graph :
      Carried(graph[p]) =
        (IF Len(graph[p]) > 2 /\ graph[p] \notin stopwords THEN 1 ELSE 0)

\* C23 witness: a run has ended over a store whose first page holds terms
\* that are filtered out and whose last page is short.
C23_Witness ==
  /\ tpc = "done"
  /\ run = 1
  /\ Len(graph) = PageLimit + 1
  /\ Len(graph[1]) <= 2
  /\ graph[2] \in stopwords
  /\ Len(graph[PageLimit + 1]) > 2
  /\ graph[PageLimit + 1] \notin stopwords
  /\ Carried(graph[PageLimit + 1]) = 1

\* C9 as claimed: a further complete run of indexTerms against the same
\* graph store leaves the terms index with the documents it had after the
\* first complete run.
C9_SyncIdempotent ==
  (snapTaken /\ tpc = "done") => termsIndex = snap
\* ------------------------------------------- the keyword-search handler
\* Values of the synonyms query parameter ("undefined": not given).
SynonymsValues == {"undefined", "", "true", "false"}

\* JavaScript truthiness of the synonyms option: parseParams maps undefined
\* to false and passes every string through; only the empty string is falsy.
Truthy(sy) == sy \notin {"undefined", ""}

\* Requests: no parameter set, a parameter set without keywords, and
\* parameter sets whose keywords split into 0..MaxKeywords keywords.
ParamSets ==
  {[present |-> FALSE, hasKeywords |-> FALSE, keywords |-> << >>,
    synonyms |-> "undefined"]}
  \cup {[present |-> TRUE, hasKeywords |-> FALSE, keywords |-> << >>,
         synonyms |-> sy] : sy \in SynonymsValues}
  \cup {[present |-> TRUE, hasKeywords |-> TRUE,
         keywords |-> [i \in 1..n |-> i], synonyms |-> sy]
          : n \in 0..MaxKeywords, sy \in SynonymsValues}

\* Bodies the graph store may answer the synonym query of keyword k with:
\* bindings carry annotatedPropertyLabel (prop, "none" when unbound),
\* annotatedTarget (target) and sameAsLabel (same, 0 when unbound).
Bodies(k) ==
  { << >>,
    << [prop |-> "has_exact_synonym", target |-> 10 * k, same |-> 0] >>,
    << [prop |-> "comment", target |-> 10 * k + 1, same |-> 0],
       [prop |-> "none", target |-> 0, same |-> 10 * k + 2],
       [prop |-> "alternative_label", target |-> 10 * k + 3, same |-> 0] >> }

\* Variant: every annotatedTarget is taken, whatever the label of the
\* annotated property.
RECURSIVE parseSynonymsResponse_AllTargets(_)
parseSynonymsResponse_AllTargets(body) ==
  IF body = << >> THEN << >>
  ELSE LET r == Head(body)
           rest == parseSynonymsResponse_AllTargets(Tail(body))
       IN  IF r.prop # "none"
           THEN << r.target >> \o rest
           ELSE IF r.same # 0 THEN << r.same >> \o rest ELSE rest

\* parseSynonymsResponse(body)
RECURSIVE parseSynonymsResponse(_)
parseSynonymsResponse(body) ==
  IF body = << >> THEN << >>
  ELSE LET r == Head(body)
           rest == parseSynonymsResponse(Tail(body))
       IN  IF r.prop # "none"
           THEN IF r.prop = "has_exact_synonym" \/ r.prop = "alternative_label"
                THEN << r.target >> \o rest
                ELSE rest
           ELSE IF r.same # 0 THEN << r.same >> \o rest ELSE rest

\* let keywords = [opts.keywords].flat();
\* for (const r of results) { keywords = keywords.concat(r); }
RECURSIVE ConcatAll(_, _)
ConcatAll(kws, results) ==
  IF results = << >> THEN kws
  ELSE ConcatAll(kws \o Head(results), Tail(results))

\* Variant of MissingParams that tests the parameter set only.
MissingParams_OnlyParameterSet(p) == ~p.present

\* params === undefined || params === null, or
\* params.keywords === undefined || params.keywords === null
MissingParams(p) == ~p.present \/ ~p.hasKeywords

SearchInit ==
  /\ params \in ParamSets
  /\ hpc = "start"
  /\ synState = << >>
  /\ synResults = << >>
  /\ synBodies = << >>
  /\ synQueries = 0
  /\ synOrder = << >>
  /\ searches = << >>
  /\ callbacks = << >>

\* The handler answers a request without parameters or without keywords.
HandlerMissingParams ==
  /\ hpc = "start"
  /\ MissingParams(params)
  /\ callbacks' = Append(callbacks, [err |-> FALSE, statusCode |-> 200, body |-> "{}"])
  /\ hpc' = "done"
  /\ UNCHANGED << params, synState, synResults, synBodies, synQueries, synOrder,
                  searches >>
  /\ UNCHANGED notSearch

\* opts.synonyms is truthy: getSynonyms sends one query per keyword and
\* returns Promise.all of them; without keywords it resolves at once and
\* the search is issued.
HandlerStartsSynonyms ==
  /\ hpc = "start"
  /\ ~MissingParams(params)
  /\ Truthy(params.synonyms)
  /\ synState' = [k \in DOMAIN params.keywords |-> "pending"]
  /\ synResults' = [k \in DOMAIN params.keywords |-> << >>]
  /\ synBodies' = [k \in DOMAIN params.keywords |-> << >>]
  /\ synQueries' = Len(params.keywords)
  /\ synOrder' = << >>
  /\ IF Len(params.keywords) = 0
     THEN /\ searches' = Append(searches, params.keywords)
          /\ hpc' = "search"
     ELSE /\ searches' = searches
          /\ hpc' = "synonyms"
  /\ UNCHANGED << params, callbacks >>
  /\ UNCHANGED notSearch

\* opts.synonyms is falsy: executeSearch with the keywords of the request.
HandlerStartsSearch ==
  /\ hpc = "start"
  /\ ~MissingParams(params)
  /\ ~Truthy(params.synonyms)
  /\ searches' = Append(searches, params.keywords)
  /\ hpc' = "search"
  /\ UNCHANGED << params, synState, synResults, synBodies, synQueries, synOrder,
                  callbacks >>
  /\ UNCHANGED notSearch

\* The results of the settled queries taken in the order given by ord.
RECURSIVE InOrder(_, _)
InOrder(ord, results) ==
  IF ord = << >> THEN << >>
  ELSE << results[Head(ord)] >> \o InOrder(Tail(ord), results)

\* Variant of SynonymResolves that collects the results as the queries
\* complete (each listener pushing onto a shared array) instead of taking
\* them from Promise.all in keyword order.
SynonymResolves_CompletionOrder ==
  /\ hpc \in {"synonyms", "done"}
  /\ \E k \in DOMAIN synState : \E body \in Bodies(k) :
       /\ synState[k] = "pending"
       /\ synState' = [synState EXCEPT ![k] = "resolved"]
       /\ synOrder' = Append(synOrder, k)
       /\ synResults' = [synResults EXCEPT ![k] = parseSynonymsResponse(body)]
       /\ synBodies' = [synBodies EXCEPT ![k] = body]
       /\ IF hpc = "synonyms" /\ \A j \in DOMAIN synState : j # k => synState[j] = "resolved"
          THEN /\ searches' = Append(searches,
                    ConcatAll(params.keywords,
                              InOrder(Append(synOrder, k),
                                      [synResults EXCEPT ![k] = parseSynonymsResponse(body)])))
               /\ hpc' = "search"
          ELSE UNCHANGED << searches, hpc >>
  /\ UNCHANGED << params, synQueries, callbacks >>
  /\ UNCHANGED notSearch

\* The synonym query of a keyword ends and its body parses: its promise
\* resolves. When it is the last one, Promise.all resolves and the search
\* is issued with the keywords followed by the results in keyword order.
SynonymResolves ==
  /\ hpc \in {"synonyms", "done"}
  /\ \E k \in DOMAIN synState : \E body \in Bodies(k) :
       /\ synState[k] = "pending"
       /\ synState' = [synState EXCEPT ![k] = "resolved"]
       /\ synOrder' = Append(synOrder, k)
       /\ synResults' = [synResults EXCEPT ![k] = parseSynonymsResponse(body)]
       /\ synBodies' = [synBodies EXCEPT ![k] = body]
       /\ IF hpc = "synonyms" /\ \A j \in DOMAIN synState : j # k => synState[j] = "resolved"
          THEN /\ searches' = Append(searches,
                    ConcatAll(params.keywords,
                              [synResults EXCEPT ![k] = parseSynonymsResponse(body)]))
               /\ hpc' = "search"
          ELSE UNCHANGED << searches, hpc >>
  /\ UNCHANGED << params, synQueries, callbacks >>
  /\ UNCHANGED notSearch

\* Variant of SynonymRejects in which every rejected query answers through
\* the callback that getSynonyms is handed.
SynonymRejects_EachAnswers ==
  /\ hpc \in {"synonyms", "done"}
  /\ \E k \in DOMAIN synState :
       /\ synState[k] = "pending"
       /\ synState' = [synState EXCEPT ![k] = "rejected"]
       /\ synOrder' = Append(synOrder, k)
  /\ callbacks' = Append(callbacks, [err |-> TRUE, statusCode |-> 500, body |-> "err"])
  /\ hpc' = "done"
  /\ UNCHANGED << params, synResults, synBodies, synQueries, searches >>
  /\ UNCHANGED notSearch

\* The response stream of a synonym query emits 'error': its promise
\* rejects. The first rejection rejects Promise.all and the catch answers
\* with the error and a 500 response.
SynonymRejects ==
  /\ hpc \in {"synonyms", "done"}
  /\ \E k \in DOMAIN synState :
       /\ synState[k] = "pending"
       /\ synState' = [synState EXCEPT ![k] = "rejected"]
       /\ synOrder' = Append(synOrder, k)
  /\ IF hpc = "synonyms"
     THEN /\ callbacks' = Append(callbacks, [err |-> TRUE, statusCode |-> 500, body |-> "err"])
          /\ hpc' = "done"
     ELSE UNCHANGED << callbacks, hpc >>
  /\ UNCHANGED << params, synResults, synBodies, synQueries, searches >>
  /\ UNCHANGED notSearch

\* The body of a synonym answer is not JSON (or has no results.bindings):
\* the 'end' listener throws outside the promise executor, the promise
\* never settles and the exception is uncaught.
SynonymParseThrows ==
  /\ hpc = "synonyms"
  /\ \E k \in DOMAIN synState :
       /\ synState[k] = "pending"
       /\ synState' = [synState EXCEPT ![k] = "crashed"]
       /\ synOrder' = Append(synOrder, k)
  /\ hpc' = "crashed"
  /\ UNCHANGED << params, synResults, synBodies, synQueries, searches, callbacks >>
  /\ UNCHANGED notSearch

\* The search resolves: the handler answers 200 with the results.
SearchResolves ==
  /\ hpc = "search"
  /\ callbacks' = Append(callbacks, [err |-> FALSE, statusCode |-> 200, body |-> "results"])
  /\ hpc' = "done"
  /\ UNCHANGED << params, synState, synResults, synBodies, synQueries, synOrder,
                  searches >>
  /\ UNCHANGED notSearch

\* The search rejects: the promise of executeSearch has no rejection
\* handler in either branch (the inner promise is not returned to the
\* chain that ends in catch), so no callback is made.
SearchRejects ==
  /\ hpc = "search"
  /\ hpc' = "unhandled"
  /\ UNCHANGED << params, synState, synResults, synBodies, synQueries, synOrder,
                  searches, callbacks >>
  /\ UNCHANGED notSearch

SearchNext ==
  \/ HandlerMissingParams
  \/ HandlerStartsSynonyms
  \/ HandlerStartsSearch
  \/ SynonymResolves
  \/ SynonymRejects
  \/ SynonymParseThrows
  \/ SearchResolves
  \/ SearchRejects

\* The handler is invoked with one request; nothing else runs.
InitSearch ==
  SearchInit /\ ScrollIdle /\ TermsIdle /\ IngestIdle /\ ClientIdle

SpecSearch == InitSearch /\ [][SearchNext]_vars

\* ----------------------------------------- keyword-search handler: claims

\* C10: for a request without a parameter set or without a keywords
\* parameter the handler sends no synonym query and no search, and once it
\* has run its only callback is a 200 response without error whose body is
\* the empty JSON object.
C10_MissingKeywordsEmpty200 ==
  (~params.present \/ ~params.hasKeywords) =>
    /\ synQueries = 0
    /\ searches = << >>
    /\ hpc \in {"start", "done"}
    /\ hpc = "done" =>
         callbacks = << [err |-> FALSE, statusCode |-> 200, body |-> "{}"] >>

\* C10 witness: a request that has parameters (synonyms among them) but no
\* keywords has been answered.
C10_Witness ==
  /\ params.present
  /\ ~params.hasKeywords
  /\ params.synonyms = "true"
  /\ hpc = "done"
  /\ Len(callbacks) = 1
\* C11 as claimed: once the search against the index store has rejected,
\* the handler has answered through its callback with a 5xx response.
C11_SearchFailureAnswered ==
  hpc = "unhandled" =>
    \E i \in DOMAIN callbacks : callbacks[i].statusCode >= 500

\* C12 as claimed: with synonyms enabled a search is issued only when the
\* synonym query of every keyword has completed, and once a synonym query
\* has failed no search is issued and the handler has reported the failure.
C12_SynonymsGateSearch ==
  (params.present /\ params.hasKeywords /\ Truthy(params.synonyms)) =>
    /\ searches # << >> =>
         \A k \in DOMAIN params.keywords :
           k \in DOMAIN synState /\ synState[k] = "resolved"
    /\ (\E k \in DOMAIN synState : synState[k] \in {"rejected", "crashed"}) =>
         /\ searches = << >>
         /\ \E i \in DOMAIN callbacks : callbacks[i].err

\* The keywords of the request followed by the synonyms of keywords 1..n,
\* keyword by keyword.
RECURSIVE ByKeyword(_)
ByKeyword(n) ==
  IF n = 0 THEN params.keywords ELSE ByKeyword(n - 1) \o synResults[n]

\* C13: the keyword list passed to the search after a synonym expansion is
\* the request's keywords followed by the synonyms of the first keyword,
\* then of the second, and so on: it depends on the keywords and on the
\* answers only, not on the order in which the queries completed.
C13_SearchIndependentOfOrder ==
  (params.present /\ params.hasKeywords /\ Truthy(params.synonyms)
     /\ searches # << >>) =>
    searches[1] = ByKeyword(Len(params.keywords))

\* C13 witness: the query of the second keyword completed before the query
\* of the first, both with synonyms, and the search was issued.
C13_Witness ==
  /\ Len(params.keywords) = 2
  /\ synOrder = << 2, 1 >>
  /\ synResults[1] # << >>
  /\ synResults[2] # << >>
  /\ Len(searches) = 1
  /\ Len(searches[1]) > 2

\* A binding that carries a synonym: an annotation whose property is labelled
\* has_exact_synonym or alternative_label, or a same-as label.
IsSynonymBinding(r) ==
  \/ r.prop \in {"has_exact_synonym", "alternative_label"}
  \/ (r.prop = "none" /\ r.same # 0)

\* The synonyms carried by the bindings of one answer, in answer order.
SynonymsIn(body) ==
  LET sel == SelectSeq(body, IsSynonymBinding)
  IN  [i \in 1..Len(sel) |->
         IF sel[i].prop = "none" THEN sel[i].same ELSE sel[i].target]

\* The original keywords followed by the synonyms of the first n keywords.
RECURSIVE WithSynonyms(_)
WithSynonyms(n) ==
  IF n = 0 THEN params.keywords
  ELSE WithSynonyms(n - 1) \o SynonymsIn(synBodies[n])

\* C24: with synonyms enabled and every synonym query successful, the
\* keyword list of the search is the original keywords in their order
\* followed by the synonyms returned for the keywords (targets of
\* has_exact_synonym and alternative_label annotations, same-as labels) and
\* nothing else.
C24_KeywordsThenSynonyms ==
  (params.present /\ params.hasKeywords /\ Truthy(params.synonyms)
     /\ searches # << >>) =>
    searches[1] = WithSynonyms(Len(params.keywords))

\* A search has been issued for two keywords, one of whose answers carried an
\* annotation that is not a synonym next to two that are.
C24_Witness ==
  /\ Len(params.keywords) = 2
  /\ Truthy(params.synonyms)
  /\ Len(searches) = 1
  /\ Len(synBodies[1]) = 1
  /\ Len(synBodies[2]) = 3
  /\ Len(searches[1]) = 5

\* C25: synonym queries are sent only when the synonyms parameter is true; a
\* request with any other value, "false" among them, sends none and searches
\* with the original keywords.
C25_SynonymsIsBoolean ==
  (params.present /\ params.hasKeywords /\ params.synonyms # "true") =>
    /\ synQueries = 0
    /\ searches # << >> => searches[1] = params.keywords

\* C30: whatever the outcomes and the completion order of the synonym queries
\* and of the search, the callback is invoked at most once and at most one
\* search is issued.
C30_AtMostOneAnswer ==
  /\ Len(callbacks) <= 1
  /\ Len(searches) <= 1

\* Both synonym queries of a request have been rejected and the handler has
\* answered once.
C30_Witness ==
  /\ Len(params.keywords) = 2
  /\ synState = << "rejected", "rejected" >>
  /\ Len(callbacks) = 1
  /\ searches = << >>

\* --------------------------------------------------- the ingest pipeline
\* Bitstreams of the DSpace items of the bitstreams-downloader tests.
PdfBitstream == [mimeType |-> "application/pdf", retrieveLink |-> "/rest/abc/bitstreams/pdf"]
JpgBitstream == [mimeType |-> "image/jpg", retrieveLink |-> "/rest/abc/bitstreams/jpg"]

\* Bitstream lists of a stored document snapshot.
BitstreamLists ==
  { << >>, << JpgBitstream >>, << PdfBitstream, JpgBitstream >>,
    << JpgBitstream, PdfBitstream >> }

\* Variant of Subscribers without the subscription of the indexer to the
\* "text extractor" topic.
Subscribers_IndexerUnsubscribed(topic) ==
  CASE topic = "availableDocument" -> {"metadataDownloader"}
    [] topic = "textExtractor" -> {}

\* Variant of Subscribers in which the indexer is subscribed to the
\* "available document" topic instead of the "text extractor" topic.
Subscribers_IndexerOnAvailable(topic) ==
  CASE topic = "availableDocument" -> {"metadataDownloader", "indexer"}
    [] topic = "textExtractor" -> {}

\* snsTopics.<topic>.addSubscription(new LambdaSubscription(...))
Subscribers(topic) ==
  CASE topic = "availableDocument" -> {"metadataDownloader"}
    [] topic = "textExtractor" -> {"indexer"}

\* buckets.<bucket>.addObjectCreatedNotification(...): the functions invoked
\* when an object is created in the bucket, directly or through a topic.
Notified(bucket) ==
  CASE bucket = "documentMetadata" -> {"bitstreamsDownloader"}
    [] bucket = "documentSource" -> {"invokeExtractor"}
    [] bucket = "textExtractorDestination" -> Subscribers("textExtractor")

\* One more event for document d waiting at each function of fs.
Enqueue(q, fs, d) ==
  [f \in Functions |-> [e \in IngestDocs |->
     IF f \in fs /\ e = d THEN q[f][e] + 1 ELSE q[f][e]]]

\* One event for document d taken from the queue of function f.
Dequeue(q, f, d) == [q EXCEPT ![f][d] = @ - 1]

\* Positions of the bitstreams of the primary content type.
PdfIdx(bs) == {i \in DOMAIN bs : bs[i].mimeType = "application/pdf"}

\* The bitstream the bitstreams downloader picks: the first PDF.
PdfOf(bs) == bs[CHOOSE i \in PdfIdx(bs) : \A j \in PdfIdx(bs) : i <= j]

IngestInit ==
  /\ snapshot \in [IngestDocs -> BitstreamLists]
  /\ scheduled = [d \in IngestDocs |-> FALSE]
  /\ queue = [f \in Functions |-> [d \in IngestDocs |-> 0]]
  /\ metaBucket = [d \in IngestDocs |-> FALSE]
  /\ srcBucket = [d \in IngestDocs |-> "none"]
  /\ textBucket = [d \in IngestDocs |-> FALSE]
  /\ bsRuns = << >>
  /\ ran = [d \in IngestDocs |-> << >>]
  /\ dups = 0

\* The scheduler publishes a document to the "available document" topic.
SchedulerPublishes ==
  /\ \E d \in IngestDocs :
       /\ ~scheduled[d]
       /\ scheduled' = [scheduled EXCEPT ![d] = TRUE]
       /\ queue' = Enqueue(queue, Subscribers("availableDocument"), d)
  /\ UNCHANGED << snapshot, metaBucket, srcBucket, textBucket, bsRuns, ran, dups >>
  /\ UNCHANGED notIngest

\* The metadata downloader stores {uuid}.json in the document metadata bucket.
MetadataDownloaderRuns ==
  /\ \E d \in IngestDocs :
       /\ queue["metadataDownloader"][d] > 0
       /\ metaBucket' = [metaBucket EXCEPT ![d] = TRUE]
       /\ queue' = Enqueue(Dequeue(queue, "metadataDownloader", d),
                           Notified("documentMetadata"), d)
       /\ ran' = [ran EXCEPT ![d] = Append(@, "metadataDownloader")]
  /\ UNCHANGED << snapshot, scheduled, srcBucket, textBucket, bsRuns, dups >>
  /\ UNCHANGED notIngest

\* Variant of BitstreamsDownloaderRuns that invokes the indexer as a
\* synchronous 'RequestResponse' call with the whole item as payload.
BitstreamsDownloaderRuns_SyncWholeItem ==
  /\ \E d \in IngestDocs :
       /\ queue["bitstreamsDownloader"][d] > 0
       /\ ran' = [ran EXCEPT ![d] = Append(@, "bitstreamsDownloader")]
       /\ IF PdfIdx(snapshot[d]) # {}
          THEN LET b == PdfOf(snapshot[d]) IN
               /\ srcBucket' = [srcBucket EXCEPT ![d] = b.retrieveLink]
               /\ bsRuns' = Append(bsRuns,
                    [doc |-> d,
                     downloads |-> << b.retrieveLink >>,
                     puts |-> << [key |-> [uuid |-> d, ext |-> "pdf"],
                                  content |-> b.retrieveLink] >>,
                     invokes |-> << >>])
               /\ queue' = Enqueue(Dequeue(queue, "bitstreamsDownloader", d),
                                   Notified("documentSource"), d)
          ELSE /\ srcBucket' = srcBucket
               /\ bsRuns' = Append(bsRuns,
                    [doc |-> d, downloads |-> << >>, puts |-> << >>,
                     invokes |-> << [fn |-> "indexer", type |-> "RequestResponse",
                                     payload |-> [uuid |-> d,
                                                  bitstreams |-> snapshot[d]]] >>])
               /\ queue' = Enqueue(Dequeue(queue, "bitstreamsDownloader", d),
                                   {"indexer"}, d)
  /\ UNCHANGED << snapshot, scheduled, metaBucket, textBucket, dups >>
  /\ UNCHANGED notIngest

\* Variant of BitstreamsDownloaderRuns that downloads the first bitstream of
\* the item whatever its mime type and invokes the indexer for items
\* without any bitstream only.
BitstreamsDownloaderRuns_FirstBitstream ==
  /\ \E d \in IngestDocs :
       /\ queue["bitstreamsDownloader"][d] > 0
       /\ ran' = [ran EXCEPT ![d] = Append(@, "bitstreamsDownloader")]
       /\ IF snapshot[d] # << >>
          THEN LET b == snapshot[d][1] IN
               /\ srcBucket' = [srcBucket EXCEPT ![d] = b.retrieveLink]
               /\ bsRuns' = Append(bsRuns,
                    [doc |-> d,
                     downloads |-> << b.retrieveLink >>,
                     puts |-> << [key |-> [uuid |-> d, ext |-> "pdf"],
                                  content |-> b.retrieveLink] >>,
                     invokes |-> << >>])
               /\ queue' = Enqueue(Dequeue(queue, "bitstreamsDownloader", d),
                                   Notified("documentSource"), d)
          ELSE /\ srcBucket' = srcBucket
               /\ bsRuns' = Append(bsRuns,
                    [doc |-> d, downloads |-> << >>, puts |-> << >>,
                     invokes |-> << [fn |-> "indexer", type |-> "Event",
                                     payload |-> [uuid |-> d]] >>])
               /\ queue' = Enqueue(Dequeue(queue, "bitstreamsDownloader", d),
                                   {"indexer"}, d)
  /\ UNCHANGED << snapshot, scheduled, metaBucket, textBucket, dups >>
  /\ UNCHANGED notIngest

\* The bitstreams downloader reads the stored item: with a PDF bitstream it
\* downloads it and stores it as {uuid}.pdf in the document source bucket,
\* without one it invokes the indexer function ('Event') with { uuid }.
BitstreamsDownloaderRuns ==
  /\ \E d \in IngestDocs :
       /\ queue["bitstreamsDownloader"][d] > 0
       /\ ran' = [ran EXCEPT ![d] = Append(@, "bitstreamsDownloader")]
       /\ IF PdfIdx(snapshot[d]) # {}
          THEN LET b == PdfOf(snapshot[d]) IN
               /\ srcBucket' = [srcBucket EXCEPT ![d] = b.retrieveLink]
               /\ bsRuns' = Append(bsRuns,
                    [doc |-> d,
                     downloads |-> << b.retrieveLink >>,
                     puts |-> << [key |-> [uuid |-> d, ext |-> "pdf"],
                                  content |-> b.retrieveLink] >>,
                     invokes |-> << >>])
               /\ queue' = Enqueue(Dequeue(queue, "bitstreamsDownloader", d),
                                   Notified("documentSource"), d)
          ELSE /\ srcBucket' = srcBucket
               /\ bsRuns' = Append(bsRuns,
                    [doc |-> d, downloads |-> << >>, puts |-> << >>,
                     invokes |-> << [fn |-> "indexer", type |-> "Event",
                                     payload |-> [uuid |-> d]] >>])
               /\ queue' = Enqueue(Dequeue(queue, "bitstreamsDownloader", d),
                                   {"indexer"}, d)
  /\ UNCHANGED << snapshot, scheduled, metaBucket, textBucket, dups >>
  /\ UNCHANGED notIngest

\* The invoke-extractor function invokes the text extractor asynchronously.
InvokeExtractorRuns ==
  /\ \E d \in IngestDocs :
       /\ queue["invokeExtractor"][d] > 0
       /\ queue' = Enqueue(Dequeue(queue, "invokeExtractor", d),
                           {"textExtractor"}, d)
       /\ ran' = [ran EXCEPT ![d] = Append(@, "invokeExtractor")]
  /\ UNCHANGED << snapshot, scheduled, metaBucket, srcBucket, textBucket,
                  bsRuns, dups >>
  /\ UNCHANGED notIngest

\* The text extractor writes the extracted text to its destination bucket.
TextExtractorRuns ==
  /\ \E d \in IngestDocs :
       /\ queue["textExtractor"][d] > 0
       /\ textBucket' = [textBucket EXCEPT ![d] = TRUE]
       /\ queue' = Enqueue(Dequeue(queue, "textExtractor", d),
                           Notified("textExtractorDestination"), d)
       /\ ran' = [ran EXCEPT ![d] = Append(@, "textExtractor")]
  /\ UNCHANGED << snapshot, scheduled, metaBucket, srcBucket, bsRuns, dups >>
  /\ UNCHANGED notIngest

\* The indexer runs for a document.
IndexerRuns ==
  /\ \E d \in IngestDocs :
       /\ queue["indexer"][d] > 0
       /\ queue' = Dequeue(queue, "indexer", d)
       /\ ran' = [ran EXCEPT ![d] = Append(@, "indexer")]
  /\ UNCHANGED << snapshot, scheduled, metaBucket, srcBucket, textBucket,
                  bsRuns, dups >>
  /\ UNCHANGED notIngest

\* At-least-once delivery: a waiting event is delivered a second time.
DeliveredTwice ==
  /\ dups < MaxDup
  /\ \E f \in Functions, d \in IngestDocs :
       /\ queue[f][d] > 0
       /\ queue' = Enqueue(queue, {f}, d)
  /\ dups' = dups + 1
  /\ UNCHANGED << snapshot, scheduled, metaBucket, srcBucket, textBucket,
                  bsRuns, ran >>
  /\ UNCHANGED notIngest

IngestNext ==
  \/ SchedulerPublishes
  \/ MetadataDownloaderRuns
  \/ BitstreamsDownloaderRuns
  \/ InvokeExtractorRuns
  \/ TextExtractorRuns
  \/ IndexerRuns
  \/ DeliveredTwice

\* Documents are announced to the pipeline; nothing else runs.
InitIngest ==
  IngestInit /\ ScrollIdle /\ TermsIdle /\ SearchIdle /\ ClientIdle

SpecIngest == InitIngest /\ [][IngestNext]_vars

\* At-least-once delivery with no stage failing: an event that waits for a
\* function is delivered, and the function runs to its end.
IngestFairness ==
  /\ WF_vars(MetadataDownloaderRuns)
  /\ WF_vars(BitstreamsDownloaderRuns)
  /\ WF_vars(InvokeExtractorRuns)
  /\ WF_vars(TextExtractorRuns)
  /\ WF_vars(IndexerRuns)

SpecIngestLive == InitIngest /\ [][IngestNext]_vars /\ IngestFairness

\* ------------------------------------------------ ingest pipeline: claims

\* C14: every invocation of the bitstreams downloader for a document whose
\* snapshot has no PDF bitstream invokes the indexer function exactly once,
\* as an asynchronous 'Event' invocation whose payload is the uuid alone,
\* and neither downloads a bitstream nor writes to the binary bucket.
C14_NoPdfInvokesIndexer ==
  \A i \in DOMAIN bsRuns :
    (\A k \in DOMAIN snapshot[bsRuns[i].doc] :
        snapshot[bsRuns[i].doc][k].mimeType # "application/pdf") =>
      /\ bsRuns[i].invokes =
           << [fn |-> "indexer", type |-> "Event",
               payload |-> [uuid |-> bsRuns[i].doc]] >>
      /\ bsRuns[i].downloads = << >>
      /\ bsRuns[i].puts = << >>
      /\ srcBucket[bsRuns[i].doc] = "none"

\* C14 witness: the bitstreams downloader ran for a document that has an
\* image bitstream only.
C14_Witness ==
  \E i \in DOMAIN bsRuns :
    /\ snapshot[bsRuns[i].doc] = << JpgBitstream >>
    /\ Len(bsRuns[i].invokes) = 1

\* C15: every invocation of the bitstreams downloader for a document whose
\* snapshot has a PDF bitstream downloads exactly that bitstream, stores its
\* content under {uuid}.pdf and does not invoke the indexer function.
C15_PdfStoredUnderUuid ==
  \A i \in DOMAIN bsRuns :
    \A k \in DOMAIN snapshot[bsRuns[i].doc] :
      snapshot[bsRuns[i].doc][k].mimeType = "application/pdf" =>
        /\ bsRuns[i].downloads = << snapshot[bsRuns[i].doc][k].retrieveLink >>
        /\ bsRuns[i].puts =
             << [key |-> [uuid |-> bsRuns[i].doc, ext |-> "pdf"],
                 content |-> snapshot[bsRuns[i].doc][k].retrieveLink] >>
        /\ bsRuns[i].invokes = << >>
        /\ srcBucket[bsRuns[i].doc] = snapshot[bsRuns[i].doc][k].retrieveLink

\* C15 witness: the bitstreams downloader ran for a document whose PDF
\* bitstream comes after an image bitstream.
C15_Witness ==
  \E i \in DOMAIN bsRuns :
    /\ snapshot[bsRuns[i].doc] = << JpgBitstream, PdfBitstream >>
    /\ Len(bsRuns[i].puts) = 1

\* Function f ran for document d before position i of its history.
RanBefore(d, f, i) == \E j \in 1..(i - 1) : ran[d][j] = f

\* C16: for every document, each function runs only after its predecessor
\* in the pipeline: the bitstreams downloader after the metadata object was
\* stored, the extractor after the bitstream was stored, the indexer after
\* the extracted text was stored or after the bitstreams downloader invoked
\* it directly; the stored objects appear in the same order.
C16_StagesInOrder ==
  \A d \in IngestDocs :
    /\ ran[d] # << >> => scheduled[d]
    /\ srcBucket[d] # "none" => metaBucket[d]
    /\ textBucket[d] => srcBucket[d] # "none"
    /\ \A i \in DOMAIN ran[d] :
         /\ ran[d][i] = "bitstreamsDownloader" =>
              RanBefore(d, "metadataDownloader", i) /\ metaBucket[d]
         /\ ran[d][i] = "invokeExtractor" =>
              RanBefore(d, "bitstreamsDownloader", i) /\ srcBucket[d] # "none"
         /\ ran[d][i] = "textExtractor" => RanBefore(d, "invokeExtractor", i)
         /\ ran[d][i] = "indexer" =>
              \/ RanBefore(d, "textExtractor", i) /\ textBucket[d]
              \/ /\ RanBefore(d, "bitstreamsDownloader", i)
                 /\ \E r \in DOMAIN bsRuns :
                      bsRuns[r].doc = d /\ bsRuns[r].invokes # << >>

\* C16 witness: a document with a PDF went through all five functions.
C16_Witness ==
  \E d \in IngestDocs :
    /\ Len(ran[d]) >= 5
    /\ ran[d][Len(ran[d])] = "indexer"
    /\ textBucket[d]

\* The indexer has run for document d.
Indexed(d) == \E i \in DOMAIN ran[d] : ran[d][i] = "indexer"

\* C27: every document published to the "available document" topic is
\* eventually indexed, whether its item has a PDF bitstream (metadata,
\* bitstream, extraction, "text extractor" topic, indexer) or not (metadata,
\* direct invocation of the indexer).
C27_EventuallyIndexed ==
  \A d \in IngestDocs : scheduled[d] ~> Indexed(d)

\* A document without a PDF bitstream has been indexed through the direct
\* invocation, one of its events having been delivered twice.
C27_Witness ==
  \E d \in IngestDocs :
    /\ PdfIdx(snapshot[d]) = {}
    /\ Indexed(d)
    /\ ~textBucket[d]
    /\ dups = 1
    /\ \A f \in Functions : queue[f][d] = 0

\* ---------- index store and DSpace clients, query builder and proxy: model
\* Titles a document item may carry; two items with the same uuid and the
\* same title are the same input.
Titles == {"a", "b"}

\* A document item as handed to putDocumentItem.
DocumentItem(u, t) == [uuid |-> u, title |-> t]

\* Variant: the item is posted to documents/_doc without an id (as
\* addDocument does), so the store generates the id.
DocumentPath_NoId(documentItem) == [index |-> "documents", id |-> 0]

\* putDocumentItem posts to `documents/_doc/${documentItem.uuid}`.
DocumentPath(documentItem) == [index |-> "documents", id |-> documentItem.uuid]

\* The index store's index API: a request that names an id replaces the entry
\* with that id, a request without one (id 0) adds an entry under a new id.
StoreIndex(idx, path, doc) ==
  IF path.id = 0
    THEN idx \cup {[id |-> 100 + Cardinality(idx), doc |-> doc]}
    ELSE {e \in idx : e.id # path.id} \cup {[id |-> path.id, doc |-> doc]}

\* Answers to the POST of a document item: the write is accepted and answered
\* with a well-formed body ("ok") or with a body of unexpected shape
\* ("badBody"); it is refused with an HTTP error; the request fails otherwise.
PutAnswers == {"ok", "badBody", "httpError", "networkError"}

\* The store has applied the write.
PutAccepted(ans) == ans \in {"ok", "badBody"}

\* Variant: the raw response is returned as it is, without the schema parse.
putDocumentItem_ReturnsRaw(ans) == "resolved"

\* putDocumentItem: the catch logs and swallows every error, so rawResponse is
\* undefined after a failed POST and putDocumentItemResponseSchema.parse throws;
\* it throws as well on a body of unexpected shape.
putDocumentItem(ans) == IF ans = "ok" THEN "resolved" ELSE "rejected"

CallPutDocumentItem ==
  /\ puts < MaxPuts
  /\ \E u \in Uuids : \E t \in Titles : \E ans \in PutAnswers :
       LET documentItem == DocumentItem(u, t) IN
       /\ docsIndex' = IF PutAccepted(ans)
                         THEN StoreIndex(docsIndex, DocumentPath(documentItem),
                                         documentItem)
                         ELSE docsIndex
       /\ written' = IF PutAccepted(ans) THEN [written EXCEPT ![u] = t]
                                         ELSE written
       /\ puts' = IF PutAccepted(ans) THEN puts + 1 ELSE puts
       /\ putRepeat' = (PutAccepted(ans) /\ written[u] = t)
       /\ call' = [fn |-> "putDocumentItem", doc |-> documentItem, ans |-> ans,
                   res |-> putDocumentItem(ans)]
  /\ UNCHANGED idxMapping
  /\ UNCHANGED notClient

\* Terms and terminologies the terms index is built from.
FetchedTerms == {[label |-> "seawater", uri |-> "uri:seawater"],
                 [label |-> "ocean", uri |-> "uri:ocean"]}
Terminologies == {[title |-> "SDG", graph |-> "graph:sdg"],
                  [title |-> "ENVO", graph |-> "graph:envo"]}

\* queryForTerm: the document bulkIndexTerms writes to the terms index.
queryForTerm(term, terminologyTitle, namedGraphUri) ==
  [label |-> term.label,
   suggest |-> << term.label >>,
   query |-> [multi_match |-> [query |-> term.label, type |-> "phrase",
                               fields |-> << "contents", "title" >>]],
   source_terminology |-> terminologyTitle,
   namedGraphUri |-> namedGraphUri,
   uri |-> term.uri]

\* The hits a percolate response may carry: documents of the terms index.
PercolateHits ==
  {[source |-> queryForTerm(t, g.title, g.graph)] :
     t \in FetchedTerms, g \in Terminologies}

HitLists == UNION {[1..n -> PercolateHits] : n \in 0..MaxHits}

\* Answers to POST {termsIndexName}/_search.
PercolateAnswers ==
  {[kind |-> "ok", hits |-> hs] : hs \in HitLists}
    \cup {[kind |-> k, hits |-> << >>] : k \in {"badBody", "httpError", "networkError"}}

\* Variant: the records are returned in the reverse of the hit order.
percolateDocumentFields_Reversed(ans) ==
  IF ans.kind = "ok"
    THEN [res |-> "resolved",
          value |-> [i \in 1..Len(ans.hits) |->
             LET h == ans.hits[Len(ans.hits) + 1 - i] IN
             [label |-> h.source.query.multi_match.query,
              uri |-> h.source.uri,
              source_terminology |-> h.source.source_terminology,
              namedGraphUri |-> h.source.namedGraphUri]]]
    ELSE [res |-> "rejected", value |-> << >>]

\* percolateDocumentFields: rethrows a failed request, throws when safeParse
\* fails, and otherwise maps hits.hits to term records.
percolateDocumentFields(ans) ==
  IF ans.kind = "ok"
    THEN [res |-> "resolved",
          value |-> [i \in 1..Len(ans.hits) |->
             LET h == ans.hits[i] IN
             [label |-> h.source.query.multi_match.query,
              uri |-> h.source.uri,
              source_terminology |-> h.source.source_terminology,
              namedGraphUri |-> h.source.namedGraphUri]]]
    ELSE [res |-> "rejected", value |-> << >>]

CallPercolateDocumentFields ==
  /\ \E ans \in PercolateAnswers :
       call' = [fn |-> "percolateDocumentFields", ans |-> ans,
                res |-> percolateDocumentFields(ans).res,
                value |-> percolateDocumentFields(ans).value]
  /\ UNCHANGED << docsIndex, written, puts, putRepeat, idxMapping >>
  /\ UNCHANGED notClient

\* Answers to a lookup GET: 200 with a well-formed body ("ok") or with a body
\* that fails the schema ("badBody"), an HTTP error status, or a failure
\* without a response.
LookupAnswers ==
  {[kind |-> "ok", status |-> 200], [kind |-> "badBody", status |-> 200],
   [kind |-> "network", status |-> 0]}
    \cup {[kind |-> "http", status |-> st] : st \in {400, 403, 404, 500}}

\* Variant: every 4xx answer is taken for "not found".
getItem_Any4xxAbsent(ans) ==
  IF ans.kind = "ok" THEN "value"
  ELSE IF ans.kind = "http" /\ ans.status >= 400 /\ ans.status < 500
    THEN "undefined"
  ELSE "error"

\* getItem: returns the parsed body; in the catch, an HTTPError with status
\* 404 gives undefined and every other error (a ZodError too) is rethrown.
getItem(ans) ==
  IF ans.kind = "ok" THEN "value"
  ELSE IF ans.kind = "http" /\ ans.status = 404 THEN "undefined"
  ELSE "error"

\* getMetadata: as getItem, on {endpoint}/rest/items/{uuid}/metadata.
getMetadata(ans) ==
  IF ans.kind = "ok" THEN "value"
  ELSE IF ans.kind = "http" /\ ans.status = 404 THEN "undefined"
  ELSE "error"

\* getDocument: returns the body unparsed; the catch rethrows unless
\* error.response.statusCode is 404.
getDocument(ans) ==
  IF ans.kind \in {"ok", "badBody"} THEN "value"
  ELSE IF ans.kind = "http" /\ ans.status = 404 THEN "undefined"
  ELSE "error"

CallGetItem ==
  /\ \E ans \in LookupAnswers :
       call' = [fn |-> "getItem", ans |-> ans, res |-> getItem(ans)]
  /\ UNCHANGED << docsIndex, written, puts, putRepeat, idxMapping >>
  /\ UNCHANGED notClient

CallGetMetadata ==
  /\ \E ans \in LookupAnswers :
       call' = [fn |-> "getMetadata", ans |-> ans, res |-> getMetadata(ans)]
  /\ UNCHANGED << docsIndex, written, puts, putRepeat, idxMapping >>
  /\ UNCHANGED notClient

CallGetDocument ==
  /\ \E ans \in LookupAnswers :
       call' = [fn |-> "getDocument", ans |-> ans, res |-> getDocument(ans)]
  /\ UNCHANGED << docsIndex, written, puts, putRepeat, idxMapping >>
  /\ UNCHANGED notClient

\* Index bodies createIndex may be called with.
IndexBodies == {"mapping1", "mapping2"}

AlreadyExists == "resource_already_exists_exception"

\* Answers of the index store to PUT {index}: an existing index is never
\* created again; an absent one is created with a 2xx answer or refused.
CreateAnswers(existing) ==
  {[kind |-> "network", status |-> 0, errorType |-> "none", creates |-> FALSE],
   [kind |-> "response", status |-> 500, errorType |-> "none", creates |-> FALSE]}
    \cup
  (IF existing # "none"
     THEN {[kind |-> "response", status |-> 400, errorType |-> AlreadyExists,
            creates |-> FALSE]}
     ELSE {[kind |-> "response", status |-> 200, errorType |-> "none",
            creates |-> TRUE],
           [kind |-> "response", status |-> 201, errorType |-> "none",
            creates |-> TRUE],
           [kind |-> "response", status |-> 400,
            errorType |-> "mapper_parsing_exception", creates |-> FALSE]})

\* Variant: every 2xx status is taken for success.
createIndex_Any2xx(ans) ==
  IF ans.kind # "response" THEN "threw"
  ELSE IF ans.status >= 200 /\ ans.status < 300 THEN "ok"
  ELSE IF ans.errorType = AlreadyExists THEN "ok"
  ELSE "threw"

\* createIndex: with throwHttpErrors off every response reaches the then
\* handler, which returns on statusCode === 200 and on error.type
\* resource_already_exists_exception and throws otherwise.
createIndex(ans) ==
  IF ans.kind # "response" THEN "threw"
  ELSE IF ans.status = 200 THEN "ok"
  ELSE IF ans.errorType = AlreadyExists THEN "ok"
  ELSE "threw"

CallCreateIndex ==
  /\ \E indexBody \in IndexBodies : \E ans \in CreateAnswers(idxMapping) :
       /\ idxMapping' = IF ans.creates THEN indexBody ELSE idxMapping
       /\ call' = [fn |-> "createIndex", indexBody |-> indexBody, ans |-> ans,
                   before |-> idxMapping, res |-> createIndex(ans)]
  /\ UNCHANGED << docsIndex, written, puts, putRepeat >>
  /\ UNCHANGED notClient

\* Term labels and term URIs a search may filter on.
FilterLabels == {"alpha", "beta"}
FilterURIs == {"uri://alpha", "uri://beta"}

\* Search options as far as the filter of the query depends on them.
SearchOptions ==
  {[terms |-> ts, termURIs |-> us, refereed |-> r, endorsed |-> e] :
     ts \in UNION {[1..n -> FilterLabels] : n \in 0..MaxFilterTerms},
     us \in UNION {[1..n -> FilterURIs] : n \in 0..MaxFilterTerms},
     r \in BOOLEAN, e \in BOOLEAN}

\* { nested: { path: '_terms', query: { match: { [field]: value } } } }
NestedClause(field, value) ==
  [nested |-> [path |-> "_terms", query |-> [match |-> << field, value >>]]]

\* { exists: { field } }
ExistsClause(field) == [exists |-> [field |-> field]]

\* Variant: the clauses on _terms.uri are placed before those on
\* _terms.label.
buildDocumentSearchQuery_UrisFirst(options) ==
  [query |-> [bool |-> [filter |->
     [i \in 1..Len(options.termURIs) |->
        NestedClause("_terms.uri", options.termURIs[i])]
     \o [i \in 1..Len(options.terms) |->
           NestedClause("_terms.label", options.terms[i])]
     \o (IF options.refereed
           THEN << ExistsClause("dc_description_refereed") >> ELSE << >>)
     \o (IF options.endorsed
           THEN << ExistsClause("obps_endorsementExternal_externalEndorsedBy") >>
           ELSE << >>)]]]

\* buildDocumentSearchQuery (buildSearchDocument): the filter of the query.
buildDocumentSearchQuery(options) ==
  [query |-> [bool |-> [filter |->
     [i \in 1..Len(options.terms) |->
        NestedClause("_terms.label", options.terms[i])]
     \o [i \in 1..Len(options.termURIs) |->
           NestedClause("_terms.uri", options.termURIs[i])]
     \o (IF options.refereed
           THEN << ExistsClause("dc_description_refereed") >> ELSE << >>)
     \o (IF options.endorsed
           THEN << ExistsClause("obps_endorsementExternal_externalEndorsedBy") >>
           ELSE << >>)]]]

CallBuildDocumentSearchQuery ==
  /\ \E options \in SearchOptions :
       call' = [fn |-> "buildDocumentSearchQuery", options |-> options,
                res |-> buildDocumentSearchQuery(options)]
  /\ UNCHANGED << docsIndex, written, puts, putRepeat, idxMapping >>
  /\ UNCHANGED notClient

\* Request bodies of the SPARQL proxy ("undefined": the event has no body).
SparqlBodies == {"undefined", "", "SELECT"}

\* Answers of the graph store to the proxied query: a response with a status
\* and a content-type header ("none": no such header), or no response.
UpstreamAnswers ==
  {[kind |-> "response", status |-> st, contentType |-> ct] :
     st \in {200, 204, 400, 404, 500},
     ct \in {"none", "application/sparql-results+json"}}
    \cup {[kind |-> "network", status |-> 0, contentType |-> "none"]}

\* No request was sent to the graph store.
NotAsked == [kind |-> "none", status |-> 0, contentType |-> "none"]

\* Variant: the status of the upstream answer is tested before its
\* content-type header.
sparqlHandler_StatusFirst(urlSet, body, up) ==
  IF ~urlSet THEN [statusCode |-> 500, requests |-> 0, up |-> NotAsked]
  ELSE IF body \in {"undefined", ""}
    THEN [statusCode |-> 400, requests |-> 0, up |-> NotAsked]
  ELSE IF up.kind = "network"
    THEN [statusCode |-> 0, requests |-> 1, up |-> up]
  ELSE IF up.status = 400
    THEN [statusCode |-> 400, requests |-> 1, up |-> up]
  ELSE IF up.contentType = "none"
    THEN [statusCode |-> 502, requests |-> 1, up |-> up]
  ELSE IF up.status # 200
    THEN [statusCode |-> 500, requests |-> 1, up |-> up]
  ELSE [statusCode |-> 200, requests |-> 1, up |-> up]

\* handler of the SPARQL proxy: the status code it answers with (0: it
\* rejects, got.post having failed without a response), the number of
\* requests it sent to the graph store and the answer it got.
sparqlHandler(urlSet, body, up) ==
  IF ~urlSet THEN [statusCode |-> 500, requests |-> 0, up |-> NotAsked]
  ELSE IF body \in {"undefined", ""}
    THEN [statusCode |-> 400, requests |-> 0, up |-> NotAsked]
  ELSE IF up.kind = "network"
    THEN [statusCode |-> 0, requests |-> 1, up |-> up]
  ELSE IF up.contentType = "none"
    THEN [statusCode |-> 502, requests |-> 1, up |-> up]
  ELSE IF up.status = 400
    THEN [statusCode |-> 400, requests |-> 1, up |-> up]
  ELSE IF up.status # 200
    THEN [statusCode |-> 500, requests |-> 1, up |-> up]
  ELSE [statusCode |-> 200, requests |-> 1, up |-> up]

CallSparqlHandler ==
  /\ \E urlSet \in BOOLEAN : \E body \in SparqlBodies :
       \E up \in UpstreamAnswers :
         call' = [fn |-> "sparqlHandler", urlSet |-> urlSet, body |-> body,
                  res |-> sparqlHandler(urlSet, body, up)]
  /\ UNCHANGED << docsIndex, written, puts, putRepeat, idxMapping >>
  /\ UNCHANGED notClient

\* The calls that change the index store.
ClientNext ==
  \/ CallPutDocumentItem
  \/ CallCreateIndex

InitClient ==
  ClientIdle /\ ScrollIdle /\ TermsIdle /\ SearchIdle /\ IngestIdle

SpecClient == InitClient /\ [][ClientNext]_vars

\* The calls whose result depends on their input and on the answer they get
\* only.
CallsNext ==
  \/ CallPercolateDocumentFields
  \/ CallGetItem
  \/ CallGetMetadata
  \/ CallGetDocument
  \/ CallBuildDocumentSearchQuery
  \/ CallSparqlHandler

InitCalls ==
  ClientIdle /\ IngestIdle /\ SearchIdle /\ TermsIdle /\ ScrollIdle

SpecCalls == InitCalls /\ [][CallsNext]_vars

\* ------------------------------------ index store and DSpace clients: claims
\* Entries of the documents index that hold the item with uuid u.
EntriesOf(u) == {e \in docsIndex : e.doc.uuid = u}

\* C17: after any number of indexing writes, repeated ones included, the
\* documents index holds for every uuid written exactly one entry, stored
\* under that uuid and carrying the item written last, and no entry for a
\* uuid never written: writing the same item again leaves the index as it was.
C17_OneEntryPerUuid ==
  \A u \in Uuids :
    IF written[u] = "none"
      THEN EntriesOf(u) = {}
      ELSE EntriesOf(u) = {[id |-> u, doc |-> DocumentItem(u, written[u])]}

\* The same item has been written twice and the index holds it once.
C17_Witness ==
  /\ call.fn = "putDocumentItem"
  /\ putRepeat
  /\ puts = 2
  /\ Cardinality(docsIndex) = 1
  /\ call.res = "resolved"

\* C18: for a well-formed percolate response, percolateDocumentFields
\* resolves with one record per hit, in hit order, each carrying exactly the
\* label, uri, source_terminology and namedGraphUri of its hit; zero hits
\* give the empty list.
C18_PercolateMapping ==
  (call.fn = "percolateDocumentFields" /\ call.ans.kind = "ok") =>
    /\ call.res = "resolved"
    /\ Len(call.value) = Len(call.ans.hits)
    /\ \A i \in 1..Len(call.ans.hits) :
         call.value[i] =
           [label |-> call.ans.hits[i].source.label,
            uri |-> call.ans.hits[i].source.uri,
            source_terminology |-> call.ans.hits[i].source.source_terminology,
            namedGraphUri |-> call.ans.hits[i].source.namedGraphUri]
    /\ (call.ans.hits = << >> => call.value = << >>)

\* A response with two different hits has been mapped.
C18_Witness ==
  /\ call.fn = "percolateDocumentFields"
  /\ call.ans.kind = "ok"
  /\ Len(call.ans.hits) = 2
  /\ call.ans.hits[1].source.label # call.ans.hits[2].source.label
  /\ call.ans.hits[1].source.namedGraphUri # call.ans.hits[2].source.namedGraphUri
  /\ Len(call.value) = 2

C20_CreateAsClaimed ==
  (call.fn = "createIndex" /\ call.ans.kind = "response") =>
    /\ (Is2xx(call.ans.status) \/ call.ans.errorType = AlreadyExists)
         => call.res = "ok"
    /\ (~Is2xx(call.ans.status) /\ call.ans.errorType # AlreadyExists)
         => call.res = "threw"
    /\ (call.before # "none" /\ call.ans.errorType = AlreadyExists)
         => (call.res = "ok" /\ idxMapping = call.before)

\* C20 (amended): createIndex completes without error exactly when the store
\* answers with status 200 or with an error of type
\* resource_already_exists_exception, and throws on every other answer, a 2xx
\* status other than 200 included; a call on an existing index that is
\* answered "already exists" succeeds and leaves the index as it was.
C20_CreateAmended ==
  (call.fn = "createIndex" /\ call.ans.kind = "response") =>
    /\ call.res = "ok" <=>
         (call.ans.status = 200 \/ call.ans.errorType = AlreadyExists)
    /\ call.res = "threw" <=>
         (call.ans.status # 200 /\ call.ans.errorType # AlreadyExists)
    /\ (call.before # "none" /\ call.ans.errorType = AlreadyExists)
         => (call.res = "ok" /\ idxMapping = call.before)

\* createIndex has been called again on an existing index with another body
\* and has succeeded.
C20_Witness ==
  /\ call.fn = "createIndex"
  /\ call.before # "none"
  /\ call.indexBody # call.before
  /\ call.ans.errorType = AlreadyExists
  /\ call.res = "ok"
  /\ idxMapping = call.before

\* The filter built by the call made last and the options it was built from.
BuiltFilter == call.res.query.bool.filter
NTerms == Len(call.options.terms)
NUris == Len(call.options.termURIs)
NRefereed == IF call.options.refereed THEN 1 ELSE 0
NEndorsed == IF call.options.endorsed THEN 1 ELSE 0

\* C21: the filter array of the built query holds one nested clause on
\* _terms.label per entry of terms, then one nested clause on _terms.uri per
\* entry of termURIs, then the exists clause of the refereed field when
\* refereed is set, then that of the endorsed field when endorsed is set,
\* and nothing else.
C21_FilterClausesInOrder ==
  call.fn = "buildDocumentSearchQuery" =>
    /\ Len(BuiltFilter) = NTerms + NUris + NRefereed + NEndorsed
    /\ \A i \in 1..NTerms :
         BuiltFilter[i] = NestedClause("_terms.label", call.options.terms[i])
    /\ \A i \in 1..NUris :
         BuiltFilter[NTerms + i] =
           NestedClause("_terms.uri", call.options.termURIs[i])
    /\ call.options.refereed =>
         BuiltFilter[NTerms + NUris + 1] = ExistsClause("dc_description_refereed")
    /\ call.options.endorsed =>
         BuiltFilter[NTerms + NUris + NRefereed + 1] =
           ExistsClause("obps_endorsementExternal_externalEndorsedBy")

\* The query of the example has been built: terms ["alpha"], termURIs
\* ["uri://alpha"], refereed and endorsed set, four clauses.
C21_Witness ==
  /\ call.fn = "buildDocumentSearchQuery"
  /\ call.options = [terms |-> << "alpha" >>, termURIs |-> << "uri://alpha" >>,
                     refereed |-> TRUE, endorsed |-> TRUE]
  /\ Len(BuiltFilter) = 4

\* C29: the SPARQL proxy answers 200 only after one request that the graph
\* store answered 200 with a content-type header; it answers 500 without a
\* request when SPARQL_URL is unset and 400 without a request when the body
\* is empty; an upstream answer without content-type gives 502 whatever its
\* status, an upstream 400 gives 400 and every other upstream status 500.
C29_ProxyStatus ==
  call.fn = "sparqlHandler" =>
    LET res == call.res
        up == call.res.up
    IN  /\ res.statusCode = 200 =>
             /\ res.requests = 1
             /\ up.kind = "response"
             /\ up.status = 200
             /\ up.contentType # "none"
        /\ ~call.urlSet => (res.statusCode = 500 /\ res.requests = 0)
        /\ (call.urlSet /\ call.body \in {"undefined", ""}) =>
             (res.statusCode = 400 /\ res.requests = 0)
        /\ up.kind = "response" =>
             /\ up.contentType = "none" => res.statusCode = 502
             /\ (up.contentType # "none" /\ up.status = 400) =>
                  res.statusCode = 400
             /\ (up.contentType # "none" /\ up.status \notin {200, 400}) =>
                  res.statusCode = 500

\* The graph store has answered 400 without a content-type header and the
\* proxy has answered 502.
C29_Witness ==
  /\ call.fn = "sparqlHandler"
  /\ call.res.up.kind = "response"
  /\ call.res.up.status = 400
  /\ call.res.up.contentType = "none"
  /\ call.res.statusCode = 502

\* C28: putDocumentItem rejects when the POST fails with an HTTP error (or
\* without a response) and when the answer has a body of unexpected shape;
\* it resolves only with a response that passed the schema, and a write the
\* store refused has left the index as it was.
C28_NoSuccessForFailedWrite ==
  call.fn = "putDocumentItem" =>
    /\ call.ans \in {"httpError", "networkError", "badBody"} =>
         call.res = "rejected"
    /\ call.res = "resolved" =>
         /\ call.ans = "ok"
         /\ [id |-> call.doc.uuid, doc |-> call.doc] \in docsIndex

\* The POST has failed with an HTTP error after an earlier write was
\* accepted, and putDocumentItem has rejected.
C28_Witness ==
  /\ call.fn = "putDocumentItem"
  /\ call.ans = "httpError"
  /\ call.res = "rejected"
  /\ puts = 1
  /\ written[call.doc.uuid] # "none"
  /\ written[call.doc.uuid] # call.doc.title
====
